---- MODULE Spec2Model ----
(***************************************************************************)
(* A model of the double-array trie of src/src/lib.rs (struct Dat<T>).     *)
(*                                                                         *)
(* The Rust vectors base and check are 0-indexed; here they are sequences, *)
(* so index i of the code is element i + 1 (operators At and Put).         *)
(* The two hash maps are functions: tail from negative ids to values,      *)
(* code_map from characters to codes.  The iteration order of code_map,    *)
(* which the standard library leaves unspecified and fixes per map         *)
(* instance through its hasher seed, is the variable iter_order, chosen    *)
(* at construction among all orders.                                       *)
(***************************************************************************)
EXTENDS Integers, Sequences, FiniteSets, TLC

VARIABLES base, check, tail, code_map, iter_order, hist, fault, log

vars == <<base, check, tail, code_map, iter_order, hist, fault, log>>

(***************************************************************************)
(* Bounds of the model.                                                    *)
(***************************************************************************)
MaxKeyLen == 2
MaxAppends == 3
MaxLoad == 2

(***************************************************************************)
(* The inputs.  A character is a Rust char; "E" stands for a character     *)
(* whose UTF-8 encoding takes two bytes (such as U+00E9), the others take  *)
(* one byte.  A key is a sequence of characters.  The code only copies a   *)
(* value of type T, so the n-th pair appended carries the value n: the     *)
(* values are pairwise distinct, and a query that returns the value of     *)
(* another key shows.                                                      *)
(***************************************************************************)
Chars == {"a", "b", "E"}

Utf8Len(ch) == IF ch = "E" THEN 2 ELSE 1

Keys == UNION {[1..n -> Chars] : n \in 0..MaxKeyLen}

Orders == {o \in [1..Cardinality(Chars) -> Chars] : \A c \in Chars : \E i \in DOMAIN o : o[i] = c}

(***************************************************************************)
(* Option<T>: None is the empty sequence, Some(v) the one-element one.     *)
(***************************************************************************)
None == << >>

Some(v) == <<v>>

EmptyMap == [x \in {} |-> 0]

MapInsert(m, k, v) == [x \in DOMAIN m \cup {k} |-> IF x = k THEN v ELSE m[x]]

Abs(x) == IF x < 0 THEN -x ELSE x

At(s, i) == s[i + 1]

Put(s, i, v) == [s EXCEPT ![i + 1] = v]

Zeros(n) == [j \in 1..n |-> 0]

(***************************************************************************)
(* Dat::default / Dat::new.  A machine record carries the four fields of   *)
(* the struct through the body of an operation, together with the events   *)
(* of the call (log) and whether the call panicked (fault).                *)
(***************************************************************************)
NewDatTwoSlots == [base |-> <<1, 0>>, check |-> <<0, 0>>, tail |-> EmptyMap,
                   code_map |-> EmptyMap, log |-> << >>, fault |-> FALSE]

NewDat == [base |-> <<1>>, check |-> <<0>>, tail |-> EmptyMap, code_map |-> EmptyMap,
           log |-> << >>, fault |-> FALSE]

Emit(m, e) == [m EXCEPT !.log = Append(@, e)]

(***************************************************************************)
(* Sequencing: Bind(v, F) is F applied to the value of v, the way a Rust   *)
(* statement works on the state its predecessor left.  (The value is       *)
(* computed once, where a LET would recompute it at every use.)            *)
(***************************************************************************)
Bind(v, F(_)) == CHOOSE r \in {F(x) : x \in {v}} : TRUE

(***************************************************************************)
(* get_code with the code of a new character taken as len, not len + 1.   *)
(***************************************************************************)
GetCodeFromLen(m, ch) ==
    LET len == Cardinality(DOMAIN m.code_map)
        fresh == ch \notin DOMAIN m.code_map
        code == IF fresh THEN len ELSE m.code_map[ch]
    IN  Emit([m EXCEPT !.code_map = IF fresh THEN MapInsert(@, ch, code) ELSE @],
             [op |-> "get_code", ch |-> ch, len |-> len, fresh |-> fresh, ret |-> code])

(***************************************************************************)
(* get_code: the code of ch, assigned on first sight as len + 1.           *)
(***************************************************************************)
GetCode(m, ch) ==
    LET len == Cardinality(DOMAIN m.code_map)
        fresh == ch \notin DOMAIN m.code_map
        code == IF fresh THEN len + 1 ELSE m.code_map[ch]
    IN  Emit([m EXCEPT !.code_map = IF fresh THEN MapInsert(@, ch, code) ELSE @],
             [op |-> "get_code", ch |-> ch, len |-> len, fresh |-> fresh, ret |-> code])

(***************************************************************************)
(* resize that pushes 1, the initial base of the root, onto base.          *)
(***************************************************************************)
ResizePushOne(m, size) ==
    IF Len(m.base) < size
    THEN Bind([m EXCEPT !.base = @ \o [j \in 1..size - Len(m.base) |-> 1],
                        !.check = @ \o Zeros(size - Len(m.base))], LAMBDA g :
           Emit(g, [op |-> "grow", from |-> Len(m.base), to |-> size,
                    base_added |-> SubSeq(g.base, Len(m.base) + 1, Len(g.base)),
                    check_added |-> SubSeq(g.check, Len(m.check) + 1, Len(g.check))]))
    ELSE m

(***************************************************************************)
(* resize: push zero slots onto both arrays until base has length size.    *)
(***************************************************************************)
Resize(m, size) ==
    IF Len(m.base) < size
    THEN Bind([m EXCEPT !.base = @ \o Zeros(size - Len(m.base)),
                        !.check = @ \o Zeros(size - Len(m.base))], LAMBDA g :
           Emit(g, [op |-> "grow", from |-> Len(m.base), to |-> size,
                    base_added |-> SubSeq(g.base, Len(m.base) + 1, Len(g.base)),
                    check_added |-> SubSeq(g.check, Len(m.check) + 1, Len(g.check))]))
    ELSE m

InUse(m, s) == At(m.base, s) # 0 \/ At(m.check, s) # 0

(***************************************************************************)
(* can_use_base that also rejects the first two slots past the end of the  *)
(* arrays.                                                                 *)
(***************************************************************************)
RECURSIVE CanUseBasePastEnd(_, _, _, _)
CanUseBasePastEnd(m, b, suffix, p) ==
    IF p > Len(suffix) THEN [m |-> m, ok |-> TRUE]
    ELSE Bind(GetCode(m, suffix[p]), LAMBDA m1 :
           LET new_state == b + m1.code_map[suffix[p]]
           IN  IF \/ new_state < Len(m1.base) /\ InUse(m1, new_state)
                  \/ new_state \in {Len(m1.base), Len(m1.base) + 1}
               THEN [m |-> m1, ok |-> FALSE]
               ELSE CanUseBasePastEnd(m1, b, suffix, p + 1))

(***************************************************************************)
(* can_use_base: every character of suffix, from position p on, maps to a  *)
(* slot b + code that is free or beyond the arrays.  It assigns codes as   *)
(* it goes and returns at the first occupied slot.                         *)
(***************************************************************************)
RECURSIVE CanUseBase(_, _, _, _)
CanUseBase(m, b, suffix, p) ==
    IF p > Len(suffix) THEN [m |-> m, ok |-> TRUE]
    ELSE Bind(GetCode(m, suffix[p]), LAMBDA m1 :
           LET new_state == b + m1.code_map[suffix[p]]
           IN  IF new_state < Len(m1.base) /\ InUse(m1, new_state)
               THEN [m |-> m1, ok |-> FALSE]
               ELSE CanUseBase(m1, b, suffix, p + 1))

(***************************************************************************)
(* The search of append's collision branch: new_base = 1, 2, ... until     *)
(* can_use_base holds.                                                     *)
(***************************************************************************)
RECURSIVE FindBase(_, _, _)
FindBase(m, new_base, suffix) ==
    Bind(CanUseBase(m, new_base, suffix, 1), LAMBDA r :
      IF r.ok THEN [m |-> r.m, new_base |-> new_base]
      ELSE FindBase(r.m, new_base + 1, suffix))

(***************************************************************************)
(* One iteration of relocate's loop, for the entry (ch, code) of code_map. *)
(***************************************************************************)
RelocateOne(m, state, old_base, new_base, code) ==
    LET old_state == old_base + code
        new_state == new_base + code
    IN  IF old_state < Len(m.base) /\ At(m.check, old_state) = state
        THEN Bind(Resize(m, new_state + 1), LAMBDA m1 :
               LET b1 == Put(m1.base, new_state, At(m1.base, old_state))
                   c1 == Put(m1.check, new_state, state)
                   c2 == [j \in 1..Len(c1) |-> IF c1[j] = old_state THEN new_state ELSE c1[j]]
               IN  Emit([m1 EXCEPT !.base = Put(b1, old_state, 0),
                                   !.check = Put(c2, old_state, 0)],
                        [op |-> "move", state |-> state, from |-> old_state, to |-> new_state,
                         src_in_use |-> InUse(m, old_state),
                         dst_in_use |-> (new_state < Len(m.base) /\ InUse(m, new_state))]))
        ELSE m

(***************************************************************************)
(* relocate: the loop over code_map in its iteration order (the entries of *)
(* order that code_map holds), then base[state] = new_base.                *)
(***************************************************************************)
RECURSIVE RelocateLoop(_, _, _, _, _, _)
RelocateLoop(m, state, old_base, new_base, order, p) ==
    IF p > Len(order) THEN m
    ELSE IF order[p] \in DOMAIN m.code_map
         THEN Bind(RelocateOne(m, state, old_base, new_base, m.code_map[order[p]]), LAMBDA m1 :
                RelocateLoop(m1, state, old_base, new_base, order, p + 1))
         ELSE RelocateLoop(m, state, old_base, new_base, order, p + 1)

Relocate(m, state, old_base, new_base, order) ==
    Bind(RelocateLoop(m, state, old_base, new_base, order, 1), LAMBDA m1 :
      [m1 EXCEPT !.base = Put(@, state, new_base)])

(***************************************************************************)
(* &key[i..]: a str is sliced by BYTE offset.  The slice exists only when  *)
(* byte i is a character boundary of key, and then holds the characters    *)
(* that start at byte i or later; otherwise the slicing panics.            *)
(***************************************************************************)
RECURSIVE ByteOffset(_, _)
ByteOffset(key, j) == IF j = 0 THEN 0 ELSE ByteOffset(key, j - 1) + Utf8Len(key[j])

IsCharBoundary(key, i) == \E j \in 0..Len(key) : ByteOffset(key, j) = i

SliceFrom(key, i) ==
    LET j == CHOOSE j \in 0..Len(key) : ByteOffset(key, j) = i
    IN  SubSeq(key, j + 1, Len(key))

(***************************************************************************)
(* The claim of a slot by append: base = the array length, check = state.  *)
(***************************************************************************)
Claim(m, new_state, state) ==
    [m EXCEPT !.base = Put(@, new_state, Len(m.base)),
              !.check = Put(@, new_state, state)]

(***************************************************************************)
(* The collision branch of append (the else-if arm), for the character at  *)
(* position i whose candidate slot is owned by another state.              *)
(***************************************************************************)
Collide(m, key, i, state, ch_code, order) ==
    LET old_base == Abs(At(m.base, state))
        m0 == Emit(m, [op |-> "collision", i |-> i, state |-> state,
                       slot |-> old_base + ch_code, ch_code |-> ch_code])
    IN  IF ~IsCharBoundary(key, i)
        THEN [Emit(m0, [op |-> "panic", i |-> i]) EXCEPT !.fault = TRUE]
        ELSE Bind(FindBase(m0, 1, SliceFrom(key, i)), LAMBDA f :
             Bind(Emit(f.m, [op |-> "found", new_base |-> f.new_base, len |-> Len(f.m.base),
                             suffix |-> SliceFrom(key, i),
                             rest |-> SubSeq(key, i + 1, Len(key))]), LAMBDA m1 :
             Bind(Relocate(m1, state, old_base, f.new_base, order), LAMBDA m2 :
               LET new_state == f.new_base + ch_code
               IN  Bind(Emit(m2, [op |-> "claim", state |-> state, slot |-> new_state,
                                  free |-> (new_state >= Len(m2.base) \/ ~InUse(m2, new_state))]),
                        LAMBDA m3 :
                   Bind(Resize(m3, new_state + 1), LAMBDA m4 :
                     Claim(m4, new_state, state))))))

(***************************************************************************)
(* The loop of append over key.chars().enumerate(), from position i (0-    *)
(* based) in state; it yields the machine and the state the walk ended on. *)
(* In the collision branch the inner new_state shadows the outer one, so   *)
(* state advances to the candidate computed before the relocation.        *)
(***************************************************************************)
RECURSIVE AppendLoop(_, _, _, _, _)
AppendLoop(m, key, i, state, order) ==
    IF i >= Len(key) THEN [m |-> m, state |-> state]
    ELSE Bind(GetCode(m, key[i + 1]), LAMBDA m1 :
           LET ch_code == m1.code_map[key[i + 1]]
               new_state == Abs(At(m1.base, state)) + ch_code
           IN  Bind(Resize(m1, new_state + 1), LAMBDA m2 :
               Bind(IF At(m2.base, new_state) = 0 /\ At(m2.check, new_state) = 0
                    THEN Claim(m2, new_state, state)
                    ELSE IF At(m2.check, new_state) # state
                         THEN Collide(m2, key, i, state, ch_code, order)
                         ELSE m2, LAMBDA m3 :
                 IF m3.fault THEN [m |-> m3, state |-> state]
                 ELSE Bind(Emit(m3, [op |-> "step", i |-> i, from |-> state, to |-> new_state]),
                           LAMBDA m4 : AppendLoop(m4, key, i + 1, new_state, order)))))

(***************************************************************************)
(* The children of state: the slots in use that record state as their      *)
(* parent and lie at |base[state]| + code for an assigned code.            *)
(***************************************************************************)
Children(m, state) ==
    {c \in 1..Len(m.base) - 1 :
        /\ InUse(m, c)
        /\ At(m.check, c) = state
        /\ \E ch \in DOMAIN m.code_map : c = Abs(At(m.base, state)) + m.code_map[ch]}

(***************************************************************************)
(* append that mints the id -tail.len(), without the -1.                   *)
(***************************************************************************)
AppendOpIdFromLen(m, key, value, order) ==
    Bind(AppendLoop([m EXCEPT !.log = << >>], key, 0, 0, order), LAMBDA r :
      LET tail_key == -Cardinality(DOMAIN r.m.tail)
      IN  IF r.m.fault THEN r.m
          ELSE Emit([r.m EXCEPT !.tail = MapInsert(@, tail_key, value),
                                !.base = Put(@, r.state, tail_key)],
                    [op |-> "end", state |-> r.state, id |-> tail_key,
                     children |-> Children(r.m, r.state)]))

(***************************************************************************)
(* append(key, value): the walk, then the fresh negative id, the side      *)
(* table entry and base[state] = id.  A panic leaves the machine as it was *)
(* when the panic was raised.                                              *)
(***************************************************************************)
AppendOp(m, key, value, order) ==
    Bind(AppendLoop([m EXCEPT !.log = << >>], key, 0, 0, order), LAMBDA r :
      LET tail_key == -Cardinality(DOMAIN r.m.tail) - 1
      IN  IF r.m.fault THEN r.m
          ELSE Emit([r.m EXCEPT !.tail = MapInsert(@, tail_key, value),
                                !.base = Put(@, r.state, tail_key)],
                    [op |-> "end", state |-> r.state, id |-> tail_key,
                     children |-> Children(r.m, r.state)]))

(***************************************************************************)
(* load(list): append every pair, in the order of the list.                *)
(***************************************************************************)
RECURSIVE LoadOp(_, _, _)
LoadOp(m, list, order) ==
    IF list = << >> \/ m.fault THEN m
    ELSE Bind(AppendOp(m, Head(list)[1], Head(list)[2], order), LAMBDA m1 :
           LoadOp(m1, Tail(list), order))

(***************************************************************************)
(* A query that asked get_code for the code, as append does: it would      *)
(* assign a code to a character it has not seen.                           *)
(***************************************************************************)
CodeMapGetOrInsert(m, ch) ==
    [m |-> GetCode(m, ch), code |-> GetCode(m, ch).code_map[ch]]

(***************************************************************************)
(* self.code_map.get(&ch) of the queries: the code of ch if it has one     *)
(* (0 stands for the absent Option), and the machine, which a get leaves   *)
(* as it is.                                                               *)
(***************************************************************************)
CodeMapGet(m, ch) ==
    [m |-> m, code |-> IF ch \in DOMAIN m.code_map THEN m.code_map[ch] ELSE 0]

(***************************************************************************)
(* The traversal step shared by lookup and search: the next state, or -1   *)
(* when the character has no code, the slot is out of range or it is not   *)
(* owned by state.                                                         *)
(***************************************************************************)
Walk(m, state, ch) ==
    Bind(CodeMapGet(m, ch), LAMBDA g :
      LET new_state == Abs(At(g.m.base, state)) + g.code
      IN  [m |-> g.m,
           next |-> IF g.code = 0 THEN -1
                    ELSE IF new_state >= Len(g.m.base) \/ At(g.m.check, new_state) # state
                         THEN -1 ELSE new_state])

(***************************************************************************)
(* lookup(key), from position p (1-based) in state.  It returns the value  *)
(* of the first state on the walk whose base is a negative id of the side  *)
(* table, provided the character just consumed equals the last character   *)
(* of key; at is the number of characters consumed when it returned Some.  *)
(***************************************************************************)
RECURSIVE LookupLoop(_, _, _, _)
LookupLoop(m, key, p, state) ==
    IF p > Len(key) THEN [m |-> m, ret |-> None, at |-> 0]
    ELSE Bind(Walk(m, state, key[p]), LAMBDA w :
           IF w.next = -1 THEN [m |-> w.m, ret |-> None, at |-> 0]
           ELSE IF /\ At(w.m.base, w.next) < 0
                   /\ key[p] = key[Len(key)]
                   /\ At(w.m.base, w.next) \in DOMAIN w.m.tail
                THEN [m |-> w.m, ret |-> Some(w.m.tail[At(w.m.base, w.next)]), at |-> p]
                ELSE LookupLoop(w.m, key, p + 1, w.next))

Lookup(m, key) == LookupLoop(m, key, 1, 0)

(***************************************************************************)
(* contain(key) is lookup(key).is_some().                                  *)
(***************************************************************************)
Contain(m, key) ==
    Bind(Lookup(m, key), LAMBDA r : [m |-> r.m, ret |-> (r.ret # None)])

(***************************************************************************)
(* search(key), from position p in state with the results so far: every    *)
(* state of the walk whose base is a negative id of the side table adds    *)
(* (the characters consumed so far, its value).                            *)
(***************************************************************************)
RECURSIVE SearchLoop(_, _, _, _, _)
SearchLoop(m, key, p, state, results) ==
    IF p > Len(key) THEN [m |-> m, ret |-> results]
    ELSE Bind(Walk(m, state, key[p]), LAMBDA w :
           IF w.next = -1 THEN [m |-> w.m, ret |-> results]
           ELSE Bind(IF At(w.m.base, w.next) < 0 /\ At(w.m.base, w.next) \in DOMAIN w.m.tail
                     THEN Append(results, <<SubSeq(key, 1, p), w.m.tail[At(w.m.base, w.next)]>>)
                     ELSE results, LAMBDA res :
                  SearchLoop(w.m, key, p + 1, w.next, res)))

Search(m, key) == SearchLoop(m, key, 1, 0, << >>)

(***************************************************************************)
(* The state machine.  hist is the sequence of the (key, value) pairs      *)
(* appended so far, log the events of the last append call, fault whether  *)
(* a call panicked.  A query stores back the machine it leaves.             *)
(***************************************************************************)
Dat == [base |-> base, check |-> check, tail |-> tail, code_map |-> code_map,
        log |-> log, fault |-> fault]

Store(m) ==
    /\ base' = m.base
    /\ check' = m.check
    /\ tail' = m.tail
    /\ code_map' = m.code_map
    /\ log' = m.log
    /\ fault' = m.fault

Init ==
    /\ base = NewDat.base
    /\ check = NewDat.check
    /\ tail = NewDat.tail
    /\ code_map = NewDat.code_map
    /\ log = NewDat.log
    /\ fault = NewDat.fault
    /\ iter_order \in Orders
    /\ hist = << >>

DoAppend ==
    /\ ~fault
    /\ Len(hist) < MaxAppends
    /\ \E key \in Keys :
          /\ \E m \in {AppendOp(Dat, key, Len(hist) + 1, iter_order)} : Store(m)
          /\ hist' = Append(hist, <<key, Len(hist) + 1>>)
    /\ UNCHANGED iter_order

DoLoad ==
    /\ ~fault
    /\ \E n \in 2..MaxLoad :
          /\ Len(hist) + n <= MaxAppends
          /\ \E keys \in [1..n -> Keys] :
                \E list \in {[j \in 1..n |-> <<keys[j], Len(hist) + j>>]} :
                \E m \in {LoadOp(Dat, list, iter_order)} :
                    /\ Store(m)
                    /\ hist' = hist \o SubSeq(list, 1, Cardinality(DOMAIN m.tail) - Len(hist)
                                                       + (IF m.fault THEN 1 ELSE 0))
    /\ UNCHANGED iter_order

DoLookup ==
    /\ ~fault
    /\ \E key \in Keys :
          \E r \in {Lookup(Dat, key)} : Store(r.m)
    /\ UNCHANGED <<iter_order, hist>>

DoContain ==
    /\ ~fault
    /\ \E key \in Keys :
          \E r \in {Contain(Dat, key)} : Store(r.m)
    /\ UNCHANGED <<iter_order, hist>>

DoSearch ==
    /\ ~fault
    /\ \E key \in Keys :
          \E r \in {Search(Dat, key)} : Store(r.m)
    /\ UNCHANGED <<iter_order, hist>>

Next == DoAppend \/ DoLoad \/ DoLookup \/ DoContain \/ DoSearch

Spec == Init /\ [][Next]_vars

(***************************************************************************)
(* What the history says: the keys appended so far, the value of the last  *)
(* append of a key, and the events of the last append call.                *)
(***************************************************************************)
AppendedKeys == {hist[i][1] : i \in 1..Len(hist)}

DistinctKeys == \A i, j \in 1..Len(hist) : hist[i][1] = hist[j][1] => i = j

LatestValue(k) ==
    hist[CHOOSE i \in 1..Len(hist) :
            /\ hist[i][1] = k
            /\ \A j \in 1..Len(hist) : hist[j][1] = k => j <= i][2]

IsPrefix(k, q) == Len(k) <= Len(q) /\ SubSeq(q, 1, Len(k)) = k

Events(kind) == {n \in 1..Len(log) : log[n].op = kind}

Relocated == Events("found") # {}

(* C1: after appends of pairwise distinct keys to a fresh trie, lookup(k)  *)
(* returns Some(v) for every pair (k, v) appended.                         *)
RoundTrip ==
    (~fault /\ DistinctKeys) =>
        \A i \in 1..Len(hist) : Lookup(Dat, hist[i][1]).ret = Some(hist[i][2])

(* C2: for every key never appended, lookup returns None and contain       *)
(* returns false.                                                          *)
NegativeLookup ==
    ~fault =>
        \A k \in Keys \ AppendedKeys :
            Lookup(Dat, k).ret = None /\ Contain(Dat, k).ret = FALSE

(* C3: search(q) returns exactly the pairs (k, latest value of k) of the   *)
(* appended keys k that are prefixes of q, equality included, one entry    *)
(* per key, by strictly increasing key length.                             *)
PrefixesOf(q) ==
    SelectSeq([n \in 1..Len(q) + 1 |-> SubSeq(q, 1, n - 1)], LAMBDA k : k \in AppendedKeys)

ExpectedSearch(q) ==
    [j \in 1..Len(PrefixesOf(q)) |-> <<PrefixesOf(q)[j], LatestValue(PrefixesOf(q)[j])>>]

PrefixCompleteness ==
    ~fault => \A q \in Keys : Search(Dat, q).ret = ExpectedSearch(q)

(* C4: an append that takes the collision branch and calls relocate leaves *)
(* every key inserted before it resolving to its value via lookup: a key   *)
(* other than the appended one that lookup resolved before the append, it  *)
(* resolves to the same value after it.                                    *)
CollisionSafetyStep ==
    (/\ Len(hist') = Len(hist) + 1
     /\ ~fault'
     /\ Events("found")' # {}) =>
        \A i \in 1..Len(hist) :
            (/\ hist[i][1] # hist'[Len(hist')][1]
             /\ Lookup(Dat, hist[i][1]).ret = Some(LatestValue(hist[i][1])))
            => Lookup(Dat', hist[i][1]).ret = Some(LatestValue(hist[i][1]))

CollisionSafety == [][CollisionSafetyStep]_vars

(* C5: lookup(q) never returns the value found at the state of a stored    *)
(* key p that is a proper prefix of q.                                     *)
LookupAcceptsAtEndOnly ==
    ~fault =>
        \A q \in Keys : \A n \in 1..Len(q) - 1 :
            SubSeq(q, 1, n) \in AppendedKeys =>
                ~(Lookup(Dat, q).ret # None /\ Lookup(Dat, q).at = n)

(* C6: two orders of appending the same pairs with distinct keys to fresh  *)
(* tries give the same lookup result for every inserted key: the trie      *)
(* reached and any trie loaded with a permutation of its history agree.    *)
Perms(n) == {p \in [1..n -> 1..n] : \A i, j \in 1..n : p[i] = p[j] => i = j}

OrderIndependence ==
    (~fault /\ DistinctKeys) =>
        \A p \in Perms(Len(hist)) : \A order \in Orders :
            \A other \in {LoadOp(NewDat, [j \in 1..Len(hist) |-> hist[p[j]]], order)} :
                ~other.fault =>
                    \A i \in 1..Len(hist) :
                        Lookup(other, hist[i][1]).ret = Lookup(Dat, hist[i][1]).ret

(* C7: a key appended again is last-write-wins: lookup returns the value   *)
(* of its last append, search reports the key at most once and with that   *)
(* value, and the side table keeps one entry per append, the earlier ones  *)
(* included.                                                               *)
Duplicated == {k \in AppendedKeys : \E i, j \in 1..Len(hist) : i # j /\ hist[i][1] = k /\ hist[j][1] = k}

SearchEntries(k) == {n \in 1..Len(Search(Dat, k).ret) : Search(Dat, k).ret[n][1] = k}

DuplicateLastWriteWins ==
    ~fault =>
        \A k \in Duplicated :
            /\ Lookup(Dat, k).ret = Some(LatestValue(k))
            /\ Cardinality(SearchEntries(k)) <= 1
            /\ \A n \in SearchEntries(k) : Search(Dat, k).ret[n][2] = LatestValue(k)
            /\ DOMAIN tail = {-i : i \in 1..Len(hist)}
            /\ \A i \in 1..Len(hist) : tail[-i] = hist[i][2]

(* C8: append completes without a fault, and the suffix key[i..] taken in  *)
(* the collision branch is the remaining characters of the key from        *)
(* character position i.                                                   *)
AppendTotal ==
    /\ ~fault
    /\ \A n \in Events("found") : log[n].suffix = log[n].rest

(* C9: the code table maps the n characters seen so far one-to-one onto    *)
(* 1..n, the first get_code call for a new character returns the number of *)
(* characters already assigned plus one, a later call returns the code     *)
(* assigned, and no step changes the code of an assigned character.        *)
CodeDense ==
    /\ \A c, d \in DOMAIN code_map : code_map[c] = code_map[d] => c = d
    /\ {code_map[c] : c \in DOMAIN code_map} = 1..Cardinality(DOMAIN code_map)

GetCodeReturns ==
    \A n \in Events("get_code") :
        /\ log[n].fresh => log[n].ret = log[n].len + 1
        /\ log[n].ch \in DOMAIN code_map /\ log[n].ret = code_map[log[n].ch]

CodeKept ==
    \A c \in DOMAIN code_map : c \in DOMAIN code_map' /\ code_map'[c] = code_map[c]

CodeStability == [](CodeDense /\ GetCodeReturns) /\ [][CodeKept]_vars

CodeStabilityWitness ==
    /\ Cardinality(DOMAIN code_map) = Cardinality(Chars)
    /\ \E n \in Events("get_code") : log[n].fresh /\ log[n].len = 2 /\ log[n].ret = 3
    /\ \E n \in Events("get_code") : ~log[n].fresh /\ log[n].ret = 1
    /\ Relocated

(* C10: lookup, contain and search leave base, check, the side table and   *)
(* the code table as they were, for every query string, also one with      *)
(* characters no append has seen.                                          *)
SameFields(m) ==
    /\ m.base = base
    /\ m.check = check
    /\ m.tail = tail
    /\ m.code_map = code_map

QueriesReadOnly ==
    \A q \in Keys :
        /\ SameFields(Lookup(Dat, q).m)
        /\ SameFields(Contain(Dat, q).m)
        /\ SameFields(Search(Dat, q).m)

QueriesReadOnlyWitness ==
    /\ ~fault
    /\ \E q \in Keys :
          /\ \E n \in 1..Len(q) : q[n] \notin DOMAIN code_map
          /\ q[1] \in DOMAIN code_map
          /\ Lookup(Dat, q).ret = None
          /\ Search(Dat, q).ret # << >>
    /\ \E q \in Keys : Lookup(Dat, q).ret # None /\ Contain(Dat, q).ret

(* C11: a fresh trie holds only the root: base and check have length 1,    *)
(* the side table and the code table are empty, and on it lookup returns   *)
(* None, contain false and search the empty sequence, for every input.     *)
FreshTrie ==
    hist = << >> =>
        /\ Len(base) = 1 /\ Len(check) = 1
        /\ DOMAIN tail = {} /\ DOMAIN code_map = {}
        /\ \A q \in Keys :
              /\ Lookup(Dat, q).ret = None
              /\ Contain(Dat, q).ret = FALSE
              /\ Search(Dat, q).ret = << >>

FreshTrieWitness ==
    /\ hist = << >> /\ ~fault
    /\ Len(base) = 1
    /\ Lookup(Dat, <<"a", "b">>).ret = None
    /\ Search(Dat, <<"E">>).ret = << >>

(* C12: after a collision at character i is resolved by relocation, append *)
(* advances to the slot new_base + ch_code it has just claimed, not to the *)
(* collided slot.                                                          *)
NextEvent(kind, n) == CHOOSE e \in Events(kind) : e > n /\ \A f \in Events(kind) : f > n => e <= f

AdvancesToClaimedSlot ==
    ~fault =>
        \A n \in Events("collision") :
            log[NextEvent("step", n)].to = log[NextEvent("claim", n)].slot

(* C13: marking a state terminal preserves its children: every child the   *)
(* state had when append wrote the id into base[state] is still at         *)
(* |base[state]| + code for an assigned code, with check = state.          *)
TerminalKeepsChildren ==
    \A n \in Events("end") :
        \A c \in log[n].children :
            /\ At(check, c) = log[n].state
            /\ \E ch \in DOMAIN code_map : c = Abs(At(base, log[n].state)) + code_map[ch]

(* C14: relocate moves exactly the genuine children of state: a slot it    *)
(* moves is in use (a free slot is no child, also when state is the root   *)
(* 0), and a child moved in a relocation is not moved again in it.         *)
RelocationOf(n) == CHOOSE f \in Events("found") : f < n /\ \A g \in Events("found") : g < n => g <= f

MovesOnlyGenuineChildren ==
    \A n \in Events("move") :
        /\ log[n].src_in_use
        /\ \A k \in Events("move") :
              (k < n /\ RelocationOf(k) = RelocationOf(n)) => log[k].to # log[n].from

(* C15: in the collision branch, the slot new_base + ch_code is free at    *)
(* the moment append claims it after relocate has run.                     *)
ClaimedSlotFree == \A n \in Events("claim") : log[n].free

(* C20: relocate never overwrites a slot in use: the destination of every  *)
(* move is free before the move.                                           *)
MoveDestinationFree == \A n \in Events("move") : ~log[n].dst_in_use

(* C16: every slot in use other than the root is a live transition of its  *)
(* recorded parent p = check[c]: c = |base[p]| + code for an assigned      *)
(* character code.                                                         *)
LiveSlots ==
    ~fault =>
        \A c \in 1..Len(base) - 1 :
            InUse(Dat, c) =>
                /\ At(check, c) \in 0..Len(base) - 1
                /\ \E ch \in DOMAIN code_map : c = Abs(At(base, At(check, c))) + code_map[ch]

(* C17: base and check have the same length, the length never decreases,   *)
(* and every slot added by growth (resize, or the growth loop of relocate) *)
(* holds base = 0 and check = 0 when it is added.                          *)
SameLength == Len(base) = Len(check)

GrowthZero ==
    \A n \in Events("grow") :
        /\ Len(log[n].base_added) = log[n].to - log[n].from
        /\ Len(log[n].check_added) = log[n].to - log[n].from
        /\ \A j \in 1..Len(log[n].base_added) : log[n].base_added[j] = 0
        /\ \A j \in 1..Len(log[n].check_added) : log[n].check_added[j] = 0

NeverShrinks == Len(base') >= Len(base) /\ Len(check') >= Len(check)

ArraysGrowZeroed == [](SameLength /\ GrowthZero) /\ [][NeverShrinks]_vars

ArraysGrowZeroedWitness ==
    /\ ~fault
    /\ \E n \in Events("grow") : n + 1 \in Events("move")
    /\ \E n \in Events("grow") : n + 1 \in Events("step")
    /\ Len(base) > 4

(* C18: the n-th append (duplicates counted) mints the id -n, so the keys  *)
(* of the side table are exactly -1 .. -n; when an append returns, base of *)
(* the state it ended on is the id just minted; and every negative value   *)
(* in base is a key of the side table.                                     *)
Returned == Len(hist) - (IF fault THEN 1 ELSE 0)

SideTableIds ==
    /\ DOMAIN tail = {-i : i \in 1..Returned}
    /\ \A n \in Events("end") :
          /\ log[n].id = -Len(hist)
          /\ At(base, log[n].state) = log[n].id
    /\ \A s \in 0..Len(base) - 1 : At(base, s) < 0 => At(base, s) \in DOMAIN tail

SideTableIdsWitness ==
    /\ ~fault
    /\ Len(hist) = 3
    /\ Duplicated # {}
    /\ DOMAIN tail = {-1, -2, -3}
    /\ \E n \in Events("end") : log[n].id = -3 /\ At(base, log[n].state) = -3

(* C19: the base search of the collision branch stops at a new_base no     *)
(* larger than the length the arrays have at that moment, and every append *)
(* that does not panic runs to its end.                                    *)
BaseSearchBounded ==
    /\ \A n \in Events("found") : log[n].new_base \in 1..log[n].len
    /\ \A n \in Events("collision") :
          \/ \E f \in Events("found") : f > n
          \/ fault /\ \E f \in Events("panic") : f > n
    /\ (~fault /\ hist # << >>) => Len(log) > 0 /\ log[Len(log)].op = "end"

BaseSearchBoundedWitness ==
    /\ ~fault
    /\ \E n \in Events("found") :
          /\ log[n].new_base > 1
          /\ log[n].new_base + code_map[log[n].suffix[1]] >= log[n].len
    /\ log[Len(log)].op = "end"

====
